---- MODULE Spec2Model ----
(***************************************************************************)
(* The canvas force graph (Graph component): the viewport epoch set up by  *)
(* the second useEffect, its pointer handlers, the frame callback          *)
(* processPointer, the tick callback ticked and the effect's cleanup.      *)
(*                                                                         *)
(* Lengths are fixed-point numbers: one CSS pixel is Scale units.  Random  *)
(* draws (Math.random()) are per-mille integers 0..999.  The excitation    *)
(* values alpha / alphaTarget are per-mille integers too (1 = 1000).       *)
(***************************************************************************)
EXTENDS Integers, Sequences, FiniteSets, TLC

\* ---------------------------------------------------------------- bounds
Scale == 4           \* units per CSS pixel
MaxWidth == 3        \* widest viewport the host delivers, px
MaxHeight == 2       \* tallest viewport the host delivers, px
MaxEpochs == 2       \* closures (epochs) that can exist at the same time
MaxRaf == 2          \* frame callbacks the browser can hold at the same time
MaxHexLen == 7       \* longest colour string given to hexToRgb
MaxDraw == 1010      \* largest draw given to pickWeightedColor, per mille
MaxCoord == 4        \* largest node coordinate given to the proximity factor, px
MaxRadius == 4       \* largest effect radius given to the proximity factor, px
MaxRenderNodes == 3  \* longest node array given to the edge computation
\* node counts per width class: 75, 150 and 300 in the source, scaled down
NodesMobile == 1
NodesTablet == 2
NodesDesktop == 2

\* ------------------------------------------------------ program constants
NODE_RADIUS == 4
DRAG_LERP == 0
LINK_DISTANCE == 100
MOUSE_EFFECT_RADIUS_NODES == 700
MOUSE_EFFECT_RADIUS_EDGES == 375
MOUSE_FALLOFF == "linear"
SPEED_FACTOR == 44          \* 0.44, in hundredths
RADIUS_MIN_FACTOR == 10     \* 0.10, in hundredths
RADIUS_MAX_FACTOR == 20     \* 0.2, in hundredths
MOUSE_ID == -1
ALPHA_DECAY == 0            \* .alphaDecay(0)
VELOCITY_DECAY == 0         \* .velocityDecay(0)

\* customBreakpoints (theme/base/breakpoints.ts), px, scaled to the modelled widths
sm == 2
lg == 3

\* ------------------------------------------------------------- optionals
\* number | null, PointerEvent | null: <<>> is null, <<v>> is the value v
Null == <<>>
Some(v) == <<v>>
Val(o) == o[1]

Max(a, b) == IF a >= b THEN a ELSE b
Min(a, b) == IF a <= b THEN a ELSE b
Abs(a) == IF a < 0 THEN -a ELSE a
\* division truncating toward zero, as a fixed-point product is cut
TDiv(a, b) == IF a >= 0 THEN a \div b ELSE -((-a) \div b)

\* -------------------------------------------------------------- universe
EpochIds == 1 .. MaxEpochs
Sizes == (1 .. MaxWidth) \X (1 .. MaxHeight)
INITIAL_WIDTH == MaxWidth      \* 900 in the source: the widest modelled viewport
INITIAL_HEIGHT == MaxHeight    \* 600 in the source

\* pointer ids: a mouse and a first touch (each the primary pointer of its type)
\* and a second touch, which is not primary while the first one is down
PrimaryPointers == {1, 2}
TouchPointers == {2, 3}
Pointers == PrimaryPointers \cup TouchPointers

\* client coordinates (px) pointer events carry: a point inside the canvas and
\* one outside it (right of it and above it, so that both clamps act)
ClientPoints == {<<1, 1>>, <<MaxWidth + 1, -1>>}

\* the values successive calls of Math.random() return, per mille; a stream is
\* read cyclically, and a generated node takes six draws: radius factor, x, y,
\* vx, vy and the colour draw
RandomStreams ==
  { << 0, 0, 500, 0, 999, 0,      999, 999, 999, 999, 0, 800 >>,
    << 500, 500, 0, 999, 500, 950,   250, 250, 750, 500, 0, 999 >> }

Draw(stream, k) == stream[((k - 1) % Len(stream)) + 1]

\* ------------------------------------------------------- pure functions
lerp(a, b, t) == a + (b - a) * t

getNodeCountForWidth(width) ==
  IF width < sm THEN NodesMobile
  ELSE IF width < lg THEN NodesTablet
  ELSE NodesDesktop

COLOR_WEIGHTS ==
  << [color |-> "#3cd962", weight |-> 750],
     [color |-> "#FF00FF", weight |-> 180],
     [color |-> "#e9fbfd", weight |-> 70] >>

RECURSIVE pickFrom(_, _, _)
pickFrom(r, i, acc) ==
  IF i > Len(COLOR_WEIGHTS) THEN COLOR_WEIGHTS[1].color
  ELSE LET acc2 == acc + COLOR_WEIGHTS[i].weight
       IN IF r <= acc2 THEN COLOR_WEIGHTS[i].color ELSE pickFrom(r, i + 1, acc2)

\* pickWeightedColor falling back to the last table entry
pickWeightedColor_LastEntry(r) ==
  IF r > 1000 THEN COLOR_WEIGHTS[Len(COLOR_WEIGHTS)].color ELSE pickFrom(r, 1, 0)

pickWeightedColor(r) == pickFrom(r, 1, 0)

\* generateNode numbering the nodes from 1 (id: i + 1)
generateNode_IdFromOne(i, width, height, stream) ==
  LET d(k)   == Draw(stream, 6 * i + k)
  IN [ id |-> i + 1,
       x |-> TDiv(d(2) * width * Scale, 1000),
       y |-> TDiv(d(3) * height * Scale, 1000),
       vx |-> TDiv((d(4) - 500) * 2 * SPEED_FACTOR * Scale, 100000),
       vy |-> TDiv((d(5) - 500) * 2 * SPEED_FACTOR * Scale, 100000),
       radius |-> 1 * Scale,
       color |-> pickWeightedColor(d(6)),
       fx |-> Null,
       fy |-> Null ]

\* one generated node: index i (0-based), viewport in px, the random stream
generateNode(i, width, height, stream) ==
  LET d(k)   == Draw(stream, 6 * i + k)
      factor == RADIUS_MIN_FACTOR +
                  TDiv(d(1) * (RADIUS_MAX_FACTOR - RADIUS_MIN_FACTOR), 1000)
      radius == Max(1 * Scale, TDiv(NODE_RADIUS * Scale * factor, 100))
  IN [ id |-> i,
       x |-> TDiv(d(2) * width * Scale, 1000),
       y |-> TDiv(d(3) * height * Scale, 1000),
       vx |-> TDiv((d(4) - 500) * 2 * SPEED_FACTOR * Scale, 100000),
       vy |-> TDiv((d(5) - 500) * 2 * SPEED_FACTOR * Scale, 100000),
       radius |-> radius,
       color |-> pickWeightedColor(d(6)),
       fx |-> Null,
       fy |-> Null ]

generateNodes(count, width, height, stream) ==
  [i \in 1 .. count |-> generateNode(i - 1, width, height, stream)]

\* mouseNodeInit leaving the node at the origin instead of the centre
mouseNodeInit_Origin(width, height) ==
  [ id |-> MOUSE_ID, x |-> 0, y |-> 0, vx |-> 0, vy |-> 0,
    radius |-> Max(1 * Scale, TDiv(NODE_RADIUS * Scale * 15, 100)),
    color |-> "#3cd962", fx |-> Null, fy |-> Null ]

\* mouseNodeInit giving the node a velocity
mouseNodeInit_Drifting(width, height) ==
  [ id |-> MOUSE_ID, x |-> (width * Scale) \div 2, y |-> (height * Scale) \div 2,
    vx |-> 1, vy |-> 0,
    radius |-> Max(1 * Scale, TDiv(NODE_RADIUS * Scale * 15, 100)),
    color |-> "#3cd962", fx |-> Null, fy |-> Null ]

mouseNodeInit(width, height) ==
  [ id |-> MOUSE_ID,
    x |-> (width * Scale) \div 2,
    y |-> (height * Scale) \div 2,
    vx |-> 0,
    vy |-> 0,
    radius |-> Max(1 * Scale, TDiv(NODE_RADIUS * Scale * 15, 100)),
    color |-> "#3cd962",
    fx |-> Null,
    fy |-> Null ]

\* ----------------------------------------------------------- hexToRgb
\* a string is the sequence of its characters; a number is a value or NaN
Num(v) == [nan |-> FALSE, v |-> v]
NaN == [nan |-> TRUE, v |-> 0]

LowerHex == <<"0", "1", "2", "3", "4", "5", "6", "7", "8", "9", "a", "b", "c", "d", "e", "f">>
UpperHex == <<"0", "1", "2", "3", "4", "5", "6", "7", "8", "9", "A", "B", "C", "D", "E", "F">>

IsHexDigit(c) == \E i \in 1 .. 16 : LowerHex[i] = c \/ UpperHex[i] = c
DigitOf(c) == (CHOOSE i \in 1 .. 16 : LowerHex[i] = c \/ UpperHex[i] = c) - 1

\* the number of leading hexadecimal digits of str, from position i on
RECURSIVE HexPrefix(_, _)
HexPrefix(str, i) ==
  IF i > Len(str) \/ ~IsHexDigit(str[i]) THEN i - 1 ELSE HexPrefix(str, i + 1)

RECURSIVE HexVal(_, _)
HexVal(str, k) == IF k = 0 THEN 0 ELSE HexVal(str, k - 1) * 16 + DigitOf(str[k])

\* parseInt(str, 16) on strings without white space, sign or 0x prefix: the
\* value of the longest prefix of hexadecimal digits, NaN when there is none
parseInt16(str) ==
  LET k == HexPrefix(str, 1)
  IN IF k = 0 THEN NaN ELSE Num(HexVal(str, k))

\* String.prototype.replace("#", ""): the first "#" only
replaceHash(hex) ==
  IF \E i \in 1 .. Len(hex) : hex[i] = "#"
  THEN LET i == CHOOSE k \in 1 .. Len(hex) :
                  hex[k] = "#" /\ \A m \in 1 .. (k - 1) : hex[m] # "#"
       IN SubSeq(hex, 1, i - 1) \o SubSeq(hex, i + 1, Len(hex))
  ELSE hex

\* String.prototype.slice(from, to), 0-based, to exclusive
slice(h, from, to) ==
  IF from >= Min(to, Len(h)) THEN <<>> ELSE SubSeq(h, from + 1, Min(to, Len(h)))

hexToRgb(hex) ==
  IF hex = <<>> THEN [r |-> Num(200), g |-> Num(200), b |-> Num(200)]
  ELSE
    LET h == replaceHash(hex)
    IN IF Len(h) = 3
       THEN [ r |-> parseInt16(<<h[1], h[1]>>),
              g |-> parseInt16(<<h[2], h[2]>>),
              b |-> parseInt16(<<h[3], h[3]>>) ]
       ELSE [ r |-> parseInt16(slice(h, 0, 2)),
              g |-> parseInt16(slice(h, 2, 4)),
              b |-> parseInt16(slice(h, 4, 6)) ]

\* ---------------------------------------------------------- the renderer
\* floor of the square root (Newton's iteration on integers)
RECURSIVE SqrtIter(_, _)
SqrtIter(n, x) ==
  LET y == (x + n \div x) \div 2
  IN IF y >= x THEN x ELSE SqrtIter(n, y)

ISqrt(n) == IF n = 0 THEN 0 ELSE SqrtIter(n, n)

\* Math.hypot in tenths of a pixel, rounded up, so that comparing it with a
\* whole number of pixels is exact
hypot(dx, dy) ==
  LET n == (dx * dx + dy * dy) * 100
      r == ISqrt(n)
  IN IF r * r = n THEN r ELSE r + 1

\* the edge discovery loops of drawFrameWithSeparateRadii, from the pair (i, j) on
RECURSIVE edgesFrom(_, _, _, _)
edgesFrom(nodes, i, j, acc) ==
  IF i > Len(nodes) THEN acc
  ELSE IF j > Len(nodes) THEN edgesFrom(nodes, i + 1, i + 2, acc)
  ELSE LET a    == nodes[i]
           b    == nodes[j]
           dist == hypot(a.x - b.x, a.y - b.y)
       IN edgesFrom(nodes, i, j + 1,
                    IF dist <= LINK_DISTANCE * 10
                    THEN Append(acc, [a |-> a, b |-> b, dist |-> dist])
                    ELSE acc)

\* the edge discovery with dist < LINK_DISTANCE
edges_Strict(nodes) ==
  SelectSeq(edgesFrom(nodes, 1, 2, <<>>), LAMBDA e : e.dist < LINK_DISTANCE * 10)

edges(nodes) == edgesFrom(nodes, 1, 2, <<>>)

\* proximityFactorToMouseWithRadius with the quadratic falloff (1 - t)^2
proximityFactorToMouseWithRadius_SquaredLinear(n, m, radius, radius2, falloff) ==
  LET dx == n.x - m.x
      dy == n.y - m.y
      d2 == dx * dx + dy * dy
      t  == (ISqrt(d2 * 100) * 100) \div radius
  IN IF d2 >= radius2 THEN 0
     ELSE IF falloff = "linear" THEN Max(0, 1000 - t)
     ELSE Max(0, ((1000 - t) * (1000 - t)) \div 1000)

\* proximityFactorToMouseWithRadius returning t instead of 1 - t
proximityFactorToMouseWithRadius_Inverted(n, m, radius, radius2, falloff) ==
  LET dx == n.x - m.x
      dy == n.y - m.y
      d2 == dx * dx + dy * dy
      t  == (ISqrt(d2 * 100) * 100) \div radius
  IN IF d2 >= radius2 THEN 0
     ELSE IF falloff = "linear" THEN Max(0, t)
     ELSE Max(0, (t * t) \div 1000)

\* the proximity factor (per mille) of node n to the mouse node m; falloff is
\* the value of MOUSE_FALLOFF, t the distance (taken in tenths of a pixel)
\* over the radius (per mille)
proximityFactorToMouseWithRadius(n, m, radius, radius2, falloff) ==
  LET dx == n.x - m.x
      dy == n.y - m.y
      d2 == dx * dx + dy * dy
      t  == (ISqrt(d2 * 100) * 100) \div radius
  IN IF d2 >= radius2 THEN 0
     ELSE IF falloff = "linear" THEN Max(0, 1000 - t)
     ELSE Max(0, 1000 - (t * t) \div 1000)

\* the two drawing loops of drawFrameWithSeparateRadii for given effect radii:
\* the edges that are stroked, with their opacity (per mille), and the nodes
\* that are filled, with their alpha (per mille), colour and radius (in
\* thousandths of a pixel)
drawLoops(nodes, mouseNode, rNodes, rEdges) ==
  LET prox(n, r)    == proximityFactorToMouseWithRadius(n, mouseNode, r, r * r, MOUSE_FALLOFF)
      baseOpacity(e) == Max(0, 1000 - (e.dist * 100) \div LINK_DISTANCE)
      proximityEdge(e) == (prox(e.a, rEdges) + prox(e.b, rEdges)) \div 2
      combinedOpacity(e) == (baseOpacity(e) * proximityEdge(e)) \div 1000
      stroked == SelectSeq(edges(nodes),
                           LAMBDA e : /\ ~(prox(e.a, rEdges) = 0 /\ prox(e.b, rEdges) = 0)
                                      /\ combinedOpacity(e) > 5)
      filled  == SelectSeq(nodes,
                           LAMBDA n : prox(n, rNodes) # 0 /\ prox(n, rNodes) > 10)
  IN [ edges |-> [k \in 1 .. Len(stroked) |->
                    [ a |-> stroked[k].a, b |-> stroked[k].b,
                      opacity |-> combinedOpacity(stroked[k]) ]],
       nodes |-> [k \in 1 .. Len(filled) |->
                    [ n |-> filled[k],
                      alpha |-> prox(filled[k], rNodes),
                      rgb |-> hexToRgb(filled[k].color),
                      drawRadius |-> filled[k].radius * (1000 + (35 * prox(filled[k], rNodes)) \div 100) ]] ]

\* drawFrameWithSeparateRadii with the two effect radii exchanged
drawFrameWithSeparateRadii_RadiiExchanged(nodes, mouseNode) ==
  drawLoops(nodes, mouseNode, MOUSE_EFFECT_RADIUS_EDGES, MOUSE_EFFECT_RADIUS_NODES)

\* what one call of drawFrameWithSeparateRadii draws on the cleared canvas
drawFrameWithSeparateRadii(nodes, mouseNode) ==
  drawLoops(nodes, mouseNode, MOUSE_EFFECT_RADIUS_NODES, MOUSE_EFFECT_RADIUS_EDGES)

\* ------------------------------------------------------------ the state
VARIABLES
  size,           \* React state size: <<width, height>> in px
  live,           \* the epoch whose effect is mounted (0 after unmount)
  simulationRef,  \* simulationRef.current: an epoch's simulation, or 0
  ep,             \* the closure of every epoch: nodes, pointer bookkeeping, simulation
  listeners,      \* registered DOM listeners: <<target, type, epoch>>
  rafQueue,       \* frame callbacks the browser holds: <<handle, epoch>>
  timers,         \* epochs whose simulation timer is running
  captured,       \* pointer ids captured on the canvas by setPointerCapture
  down,           \* primary pointers that are pressed
  captureSupported, \* whether the host implements Element.setPointerCapture
  hist,           \* history: the latest pointer-move event received since the last frame
                  \* callback, and whether a primary down/up/cancel was handled after one
  probe           \* the call of a module-level function being looked at: its
                  \* arguments and what it returned (NoProbe while the component runs)

vars == <<size, live, simulationRef, ep, listeners, rafQueue, timers, captured, down,
          captureSupported, hist, probe>>

NoProbe == [fn |-> "none"]

\* a closure nothing refers to any more
DeadClosure ==
  [ width |-> 0, height |-> 0, nodes |-> <<>>, rafId |-> Null, lastEvent |-> Null,
    isDragging |-> FALSE, activePointerId |-> Null, alpha |-> 0, alphaTarget |-> 0 ]

\* what the component has been sent, kept for stating properties only:
\*   latest      the last pointermove received since the last processed frame
\*   interfered  a primary pointerdown/up/cancel was handled after that move
\*   stale       a pointerleave was handled while not dragging, and the stored
\*               event (lastEvent) was received before it
\*   ended       a primary pointerup/cancel ended a drag, no pointer event since
NoHist == [latest |-> Null, interfered |-> FALSE, stale |-> FALSE, ended |-> FALSE]

\* the mouse node is the last element of the node array
mouseNode(c) == c.nodes[Len(c.nodes)]

\* the state the handlers read and write, as one value; canvas is the frame
\* drawn while a handler runs (the program never reads the canvas back, so no
\* variable keeps it)
World ==
  [ ep |-> ep, listeners |-> listeners, rafQueue |-> rafQueue, timers |-> timers,
    captured |-> captured, simulationRef |-> simulationRef,
    rect |-> IF live = 0 THEN <<0, 0>> ELSE <<size[1] * Scale, size[2] * Scale>>,
    canvas |-> Null ]

\* what a stored event (lastEvent = e) is read for later: its client coordinates
Stored(ev) == [clientX |-> ev.clientX, clientY |-> ev.clientY]

PointerEvent(pt, p) ==
  [ clientX |-> pt[1] * Scale, clientY |-> pt[2] * Scale,
    pointerId |-> p, isPrimary |-> p \in PrimaryPointers ]

\* --------------------------------------------------------- the browser
Handles(q) == {hq[1] : hq \in q}

requestAnimationFrame(w, e) ==
  LET h == CHOOSE n \in 1 .. (Cardinality(w.rafQueue) + 1) :
             /\ n \notin Handles(w.rafQueue)
             /\ \A m \in 1 .. (n - 1) : m \in Handles(w.rafQueue)
  IN [w EXCEPT !.rafQueue = @ \cup {<<h, e>>}, !.ep[e].rafId = Some(h)]

cancelAnimationFrame(w, h) ==
  [w EXCEPT !.rafQueue = {hq \in @ : hq[1] # h}]

\* Element.setPointerCapture: ok = FALSE is the call throwing
setPointerCapture(w, p, ok) ==
  IF ok THEN [w EXCEPT !.captured = @ \cup {p}] ELSE w

\* Element.releasePointerCapture: throws when p is not captured, nothing changes
releasePointerCapture(w, p) ==
  [w EXCEPT !.captured = @ \ {p}]

\* ----------------------------------------------------- pointer handlers
\* handlePointerMoveGlobal recording an event only when it schedules the frame
handlePointerMoveGlobal_KeepFirst(w, e, ev) ==
  IF w.ep[e].rafId = Null
  THEN requestAnimationFrame([w EXCEPT !.ep[e].lastEvent = Some(Stored(ev))], e)
  ELSE w

\* handlePointerMoveGlobal asking for a frame on every event
handlePointerMoveGlobal_AlwaysSchedule(w, e, ev) ==
  requestAnimationFrame([w EXCEPT !.ep[e].lastEvent = Some(Stored(ev))], e)

handlePointerMoveGlobal(w, e, ev) ==
  LET w1 == [w EXCEPT !.ep[e].lastEvent = Some(Stored(ev))]
  IN IF w.ep[e].rafId = Null THEN requestAnimationFrame(w1, e) ELSE w1

\* processPointer without the clamp to the canvas rectangle
processPointer_NoClamp(w, e) ==
  LET c == [w.ep[e] EXCEPT !.rafId = Null]
  IN IF c.lastEvent = Null THEN [w EXCEPT !.ep[e] = c]
     ELSE
       LET ev == Val(c.lastEvent)
           cx == ev.clientX - 0
           cy == ev.clientY - 0
           k  == Len(c.nodes)
           m  == c.nodes[k]
           m2 == IF c.isDragging
                 THEN LET nx == lerp(m.x, cx, DRAG_LERP)
                          ny == lerp(m.y, cy, DRAG_LERP)
                      IN [m EXCEPT !.x = nx, !.y = ny, !.fx = Some(nx), !.fy = Some(ny)]
                 ELSE [m EXCEPT !.x = cx, !.y = cy, !.fx = Some(cx), !.fy = Some(cy)]
       IN [w EXCEPT !.ep[e] =
             [c EXCEPT !.nodes[k] = m2, !.alpha = 100, !.lastEvent = Null]]

\* processPointer writing the position into the first node of the array
processPointer_FirstNode(w, e) ==
  LET c == [w.ep[e] EXCEPT !.rafId = Null]
  IN IF c.lastEvent = Null THEN [w EXCEPT !.ep[e] = c]
     ELSE
       LET ev == Val(c.lastEvent)
           cx == Max(0, Min(ev.clientX - 0, w.rect[1]))
           cy == Max(0, Min(ev.clientY - 0, w.rect[2]))
           m  == c.nodes[1]
           m2 == IF c.isDragging
                 THEN LET nx == lerp(m.x, cx, DRAG_LERP)
                          ny == lerp(m.y, cy, DRAG_LERP)
                      IN [m EXCEPT !.x = nx, !.y = ny, !.fx = Some(nx), !.fy = Some(ny)]
                 ELSE [m EXCEPT !.x = cx, !.y = cy, !.fx = Some(cx), !.fy = Some(cy)]
       IN [w EXCEPT !.ep[e] =
             [c EXCEPT !.nodes[1] = m2, !.alpha = 100, !.lastEvent = Null]]

\* processPointer setting the pin but not the position
processPointer_PinOnly(w, e) ==
  LET c == [w.ep[e] EXCEPT !.rafId = Null]
  IN IF c.lastEvent = Null THEN [w EXCEPT !.ep[e] = c]
     ELSE
       LET ev == Val(c.lastEvent)
           cx == Max(0, Min(ev.clientX - 0, w.rect[1]))
           cy == Max(0, Min(ev.clientY - 0, w.rect[2]))
           k  == Len(c.nodes)
           m  == c.nodes[k]
           m2 == IF c.isDragging
                 THEN LET nx == lerp(m.x, cx, DRAG_LERP)
                          ny == lerp(m.y, cy, DRAG_LERP)
                      IN [m EXCEPT !.fx = Some(nx), !.fy = Some(ny)]
                 ELSE [m EXCEPT !.fx = Some(cx), !.fy = Some(cy)]
       IN [w EXCEPT !.ep[e] =
             [c EXCEPT !.nodes[k] = m2, !.alpha = 100, !.lastEvent = Null]]

processPointer(w, e) ==
  LET c == [w.ep[e] EXCEPT !.rafId = Null]
  IN IF c.lastEvent = Null THEN [w EXCEPT !.ep[e] = c]
     ELSE
       LET ev == Val(c.lastEvent)
           cx == Max(0, Min(ev.clientX - 0, w.rect[1]))
           cy == Max(0, Min(ev.clientY - 0, w.rect[2]))
           k  == Len(c.nodes)
           m  == c.nodes[k]
           m2 == IF c.isDragging
                 THEN LET nx == lerp(m.x, cx, DRAG_LERP)
                          ny == lerp(m.y, cy, DRAG_LERP)
                      IN [m EXCEPT !.x = nx, !.y = ny, !.fx = Some(nx), !.fy = Some(ny)]
                 ELSE [m EXCEPT !.x = cx, !.y = cy, !.fx = Some(cx), !.fy = Some(cy)]
       IN [w EXCEPT !.ep[e] =
             [c EXCEPT !.nodes[k] = m2, !.alpha = 100, !.lastEvent = Null]]

\* onPointerDown without lastEvent = e
onPointerDown_KeepEvent(w, e, ev, ok) ==
  IF ~ev.isPrimary THEN w
  ELSE
    LET w1 == [w EXCEPT !.ep[e].isDragging = TRUE,
                        !.ep[e].activePointerId = Some(ev.pointerId)]
        w2 == setPointerCapture(w1, ev.pointerId, ok)
        w3 == IF w2.ep[e].rafId = Null THEN requestAnimationFrame(w2, e) ELSE w2
    IN [w3 EXCEPT !.ep[e].alphaTarget = 100, !.timers = @ \cup {e}]

\* onPointerDown without the isPrimary guard
onPointerDown_AnyPointer(w, e, ev, ok) ==
  LET w1 == [w EXCEPT !.ep[e].isDragging = TRUE,
                      !.ep[e].activePointerId = Some(ev.pointerId),
                      !.ep[e].lastEvent = Some(Stored(ev))]
      w2 == setPointerCapture(w1, ev.pointerId, ok)
      w3 == IF w2.ep[e].rafId = Null THEN requestAnimationFrame(w2, e) ELSE w2
  IN [w3 EXCEPT !.ep[e].alphaTarget = 100, !.timers = @ \cup {e}]

\* onPointerDown with the throw of setPointerCapture left uncaught: the
\* handler ends at the call
onPointerDown_CaptureAborts(w, e, ev, ok) ==
  IF ~ev.isPrimary THEN w
  ELSE
    LET w1 == [w EXCEPT !.ep[e].isDragging = TRUE,
                        !.ep[e].activePointerId = Some(ev.pointerId),
                        !.ep[e].lastEvent = Some(Stored(ev))]
        w2 == setPointerCapture(w1, ev.pointerId, ok)
        w3 == IF w2.ep[e].rafId = Null THEN requestAnimationFrame(w2, e) ELSE w2
    IN IF ok THEN [w3 EXCEPT !.ep[e].alphaTarget = 100, !.timers = @ \cup {e}]
       ELSE w1

onPointerDown(w, e, ev, ok) ==
  IF ~ev.isPrimary THEN w
  ELSE
    LET w1 == [w EXCEPT !.ep[e].isDragging = TRUE,
                        !.ep[e].activePointerId = Some(ev.pointerId),
                        !.ep[e].lastEvent = Some(Stored(ev))]
        w2 == setPointerCapture(w1, ev.pointerId, ok)
        w3 == IF w2.ep[e].rafId = Null THEN requestAnimationFrame(w2, e) ELSE w2
    IN [w3 EXCEPT !.ep[e].alphaTarget = 100, !.timers = @ \cup {e}]

\* endDragFromEvent returning when the pointer ids do not match
endDragFromEvent_ActiveOnly(w, e, ev) ==
  IF ~ev.isPrimary \/ w.ep[e].activePointerId # Some(ev.pointerId) THEN w
  ELSE
    LET w1 == [w EXCEPT !.ep[e].isDragging = FALSE,
                        !.ep[e].activePointerId = Null,
                        !.ep[e].lastEvent = Null]
        w2 == releasePointerCapture(w1, ev.pointerId)
    IN [w2 EXCEPT !.ep[e].alphaTarget = 0]

\* endDragFromEvent without lastEvent = null
endDragFromEvent_KeepEvent(w, e, ev) ==
  IF ~ev.isPrimary THEN w
  ELSE
    LET w1 == [w EXCEPT !.ep[e].isDragging = FALSE,
                        !.ep[e].activePointerId = Null]
        w2 == releasePointerCapture(w1, ev.pointerId)
    IN [w2 EXCEPT !.ep[e].alphaTarget = 0]

endDragFromEvent(w, e, ev) ==
  IF ~ev.isPrimary THEN w
  ELSE
    LET w1 == [w EXCEPT !.ep[e].isDragging = FALSE,
                        !.ep[e].activePointerId = Null,
                        !.ep[e].lastEvent = Null]
        w2 == releasePointerCapture(w1, ev.pointerId)
    IN [w2 EXCEPT !.ep[e].alphaTarget = 0]

\* handlePointerLeaveGlobal clearing fx only
handlePointerLeaveGlobal_OnlyX(w, e) ==
  IF ~w.ep[e].isDragging
  THEN [w EXCEPT !.ep[e].nodes[Len(w.ep[e].nodes)].fx = Null]
  ELSE w

handlePointerLeaveGlobal(w, e) ==
  IF ~w.ep[e].isDragging
  THEN LET k == Len(w.ep[e].nodes)
       IN [w EXCEPT !.ep[e].nodes[k].fx = Null, !.ep[e].nodes[k].fy = Null]
  ELSE w

\* ------------------------------------------------------------- the tick
\* d3-force's position step for one node, as the simulation is configured:
\* forceManyBody().strength(0) adds nothing to the velocities and
\* velocityDecay(0) keeps them (the engine multiplies by 1 - 0)
d3Integrate(n) ==
  LET keep == 1 - VELOCITY_DECAY
      ax == IF n.fx = Null THEN [n EXCEPT !.vx = n.vx * keep, !.x = n.x + n.vx * keep]
                           ELSE [n EXCEPT !.x = Val(n.fx), !.vx = 0]
  IN IF ax.fy = Null THEN [ax EXCEPT !.vy = ax.vy * keep, !.y = ax.y + ax.vy * keep]
                     ELSE [ax EXCEPT !.y = Val(ax.fy), !.vy = 0]

\* tickedNode with the far walls left out (the two else-if branches missing)
tickedNode_NoFarWall(n, width, height) ==
  IF n.id = MOUSE_ID /\ n.fx # Null /\ n.fy # Null
  THEN [n EXCEPT !.vx = 0, !.vy = 0, !.x = Val(n.fx), !.y = Val(n.fy)]
  ELSE
    LET bx == IF n.x <= n.radius
              THEN [n EXCEPT !.x = n.radius, !.vx = Abs(n.vx)]
              ELSE n
    IN IF bx.y <= bx.radius
       THEN [bx EXCEPT !.y = bx.radius, !.vy = Abs(bx.vy)]
       ELSE bx

\* tickedNode without the branch for the pinned mouse node
tickedNode_NoPin(n, width, height) ==
  LET bx == IF n.x <= n.radius
            THEN [n EXCEPT !.x = n.radius, !.vx = Abs(n.vx)]
            ELSE IF n.x >= width - n.radius
                 THEN [n EXCEPT !.x = width - n.radius, !.vx = -Abs(n.vx)]
                 ELSE n
  IN IF bx.y <= bx.radius
     THEN [bx EXCEPT !.y = bx.radius, !.vy = Abs(bx.vy)]
     ELSE IF bx.y >= height - bx.radius
          THEN [bx EXCEPT !.y = height - bx.radius, !.vy = -Abs(bx.vy)]
          ELSE bx

\* tickedNode with a wall that absorbs the velocity instead of reflecting it
tickedNode_Damped(n, width, height) ==
  IF n.id = MOUSE_ID /\ n.fx # Null /\ n.fy # Null
  THEN [n EXCEPT !.vx = 0, !.vy = 0, !.x = Val(n.fx), !.y = Val(n.fy)]
  ELSE
    LET bx == IF n.x <= n.radius
              THEN [n EXCEPT !.x = n.radius, !.vx = 0]
              ELSE IF n.x >= width - n.radius
                   THEN [n EXCEPT !.x = width - n.radius, !.vx = 0]
                   ELSE n
    IN IF bx.y <= bx.radius
       THEN [bx EXCEPT !.y = bx.radius, !.vy = 0]
       ELSE IF bx.y >= height - bx.radius
            THEN [bx EXCEPT !.y = height - bx.radius, !.vy = 0]
            ELSE bx

\* the body of ticked's loop for one node; width, height in units
tickedNode(n, width, height) ==
  IF n.id = MOUSE_ID /\ n.fx # Null /\ n.fy # Null
  THEN [n EXCEPT !.vx = 0, !.vy = 0, !.x = Val(n.fx), !.y = Val(n.fy)]
  ELSE
    LET bx == IF n.x <= n.radius
              THEN [n EXCEPT !.x = n.radius, !.vx = Abs(n.vx)]
              ELSE IF n.x >= width - n.radius
                   THEN [n EXCEPT !.x = width - n.radius, !.vx = -Abs(n.vx)]
                   ELSE n
    IN IF bx.y <= bx.radius
       THEN [bx EXCEPT !.y = bx.radius, !.vy = Abs(bx.vy)]
       ELSE IF bx.y >= height - bx.radius
            THEN [bx EXCEPT !.y = height - bx.radius, !.vy = -Abs(bx.vy)]
            ELSE bx

\* the call drawFrameWithSeparateRadii(ctx, nodes, width, height, mouseNode),
\* as what it reads of its arguments at the time of the call
drawCall(nodes, width, height) ==
  [ width |-> width, height |-> height,
    nodes |-> [i \in 1 .. Len(nodes) |->
                 [ id |-> nodes[i].id, x |-> nodes[i].x, y |-> nodes[i].y,
                   radius |-> nodes[i].radius, color |-> nodes[i].color ]] ]

\* ticked drawing the frame before its loop over the nodes
ticked_DrawFirst(w, e) ==
  LET c == w.ep[e]
  IN [w EXCEPT !.canvas = Some(drawCall(c.nodes, c.width, c.height)),
               !.ep[e].nodes =
                 [i \in 1 .. Len(c.nodes) |->
                    tickedNode(c.nodes[i], c.width * Scale, c.height * Scale)]]

\* the tick listener: the loop over the nodes, then the frame is drawn
ticked(w, e) ==
  LET c  == w.ep[e]
      ns == [i \in 1 .. Len(c.nodes) |->
               tickedNode(c.nodes[i], c.width * Scale, c.height * Scale)]
  IN [w EXCEPT !.ep[e].nodes = ns,
               !.canvas = Some(drawCall(ns, c.width, c.height))]

\* simulationStep with an alphaDecay of one half
simulationStep_Decaying(w, e) ==
  LET c  == w.ep[e]
      a  == c.alpha + TDiv(c.alphaTarget - c.alpha, 2)
      w1 == [w EXCEPT !.ep[e].alpha = a,
                      !.ep[e].nodes = [i \in 1 .. Len(c.nodes) |-> d3Integrate(c.nodes[i])]]
      w2 == ticked(w1, e)
  IN IF a < 1 THEN [w2 EXCEPT !.timers = @ \ {e}] ELSE w2

\* simulationStep with the engine's default alphaDecay (0.0228)
simulationStep_DefaultDecay(w, e) ==
  LET c  == w.ep[e]
      a  == c.alpha + TDiv((c.alphaTarget - c.alpha) * 228, 10000)
      w1 == [w EXCEPT !.ep[e].alpha = a,
                      !.ep[e].nodes = [i \in 1 .. Len(c.nodes) |-> d3Integrate(c.nodes[i])]]
      w2 == ticked(w1, e)
  IN IF a < 1 THEN [w2 EXCEPT !.timers = @ \ {e}] ELSE w2

\* one step of the simulation timer: alpha moves toward alphaTarget by
\* alphaDecay (0), the nodes are integrated, the tick listener runs, and the
\* timer stops itself once alpha is below alphaMin (0.001)
simulationStep(w, e) ==
  LET c  == w.ep[e]
      a  == c.alpha + (c.alphaTarget - c.alpha) * ALPHA_DECAY
      w1 == [w EXCEPT !.ep[e].alpha = a,
                      !.ep[e].nodes = [i \in 1 .. Len(c.nodes) |-> d3Integrate(c.nodes[i])]]
      w2 == ticked(w1, e)
  IN IF a < 1 THEN [w2 EXCEPT !.timers = @ \ {e}] ELSE w2

\* --------------------------------------------------- the epoch's effect
ListenerKinds ==
  { <<"canvas", "pointerdown">>, <<"canvas", "pointermove">>, <<"canvas", "pointerup">>,
    <<"canvas", "pointercancel">>, <<"window", "pointermove">>, <<"window", "pointerleave">> }

\* the effect body for a new closure e: nodes, mouse node, simulation, listeners
setupEpoch(w, e, width, height, stream) ==
  LET nodes == Append(generateNodes(getNodeCountForWidth(width), width, height, stream),
                      mouseNodeInit(width, height))
      w1 == IF w.simulationRef # 0
            THEN [w EXCEPT !.timers = @ \ {w.simulationRef}, !.simulationRef = 0]
            ELSE w
  IN [w1 EXCEPT
        !.ep[e] = [ width |-> width, height |-> height,
                    nodes |-> nodes,
                    rafId |-> Null, lastEvent |-> Null,
                    isDragging |-> FALSE, activePointerId |-> Null,
                    alpha |-> 1000, alphaTarget |-> 0 ],
        !.timers = @ \cup {e},
        !.simulationRef = e,
        !.listeners = @ \cup {<<k[1], k[2], e>> : k \in ListenerKinds},
        !.rect = <<width * Scale, height * Scale>>,
        !.canvas = Some(drawCall(nodes, width, height))]

\* cleanupEpoch without the cancelAnimationFrame call
cleanupEpoch_NoCancel(w, e) ==
  LET c  == w.ep[e]
      w1 == [w EXCEPT !.timers = @ \ {e},
                      !.simulationRef = 0,
                      !.listeners = {l \in @ : l[3] # e}]
  IN IF c.activePointerId # Null
     THEN releasePointerCapture(w1, Val(c.activePointerId))
     ELSE w1

\* the function the effect returns
cleanupEpoch(w, e) ==
  LET c  == w.ep[e]
      w1 == [w EXCEPT !.timers = @ \ {e},
                      !.simulationRef = 0,
                      !.listeners = {l \in @ : l[3] # e}]
      w2 == IF c.activePointerId # Null
            THEN releasePointerCapture(w1, Val(c.activePointerId))
            ELSE w1
  IN IF c.rafId # Null
     THEN [cancelAnimationFrame(w2, Val(c.rafId)) EXCEPT !.ep[e].rafId = Null]
     ELSE w2

\* closures nothing can call any more are dropped
Referenced(w, e) ==
  \/ \E l \in w.listeners : l[3] = e
  \/ \E hq \in w.rafQueue : hq[2] = e
  \/ e \in w.timers

Collect(w, keep) ==
  [w EXCEPT !.ep = [e \in EpochIds |->
                      IF e = keep \/ Referenced(w, e) THEN w.ep[e] ELSE DeadClosure]]

Commit(w) ==
  /\ ep' = w.ep
  /\ listeners' = w.listeners
  /\ rafQueue' = w.rafQueue
  /\ timers' = w.timers
  /\ captured' = w.captured
  /\ simulationRef' = w.simulationRef
  /\ Cardinality(w.rafQueue) <= MaxRaf

\* ------------------------------------------------------ event dispatch
\* the listeners of one target and type run in the order of their epochs
RECURSIVE DispatchMove(_, _, _, _)
DispatchMove(w, target, ev, e) ==
  IF e > MaxEpochs THEN w
  ELSE DispatchMove(IF <<target, "pointermove", e>> \in w.listeners
                    THEN handlePointerMoveGlobal(w, e, ev) ELSE w,
                    target, ev, e + 1)

RECURSIVE DispatchDown(_, _, _, _)
DispatchDown(w, ev, ok, e) ==
  IF e > MaxEpochs THEN w
  ELSE DispatchDown(IF <<"canvas", "pointerdown", e>> \in w.listeners
                    THEN onPointerDown(w, e, ev, ok) ELSE w,
                    ev, ok, e + 1)

RECURSIVE DispatchEnd(_, _, _, _)
DispatchEnd(w, type, ev, e) ==
  IF e > MaxEpochs THEN w
  ELSE DispatchEnd(IF <<"canvas", type, e>> \in w.listeners
                   THEN endDragFromEvent(w, e, ev) ELSE w,
                   type, ev, e + 1)

RECURSIVE DispatchLeave(_, _)
DispatchLeave(w, e) ==
  IF e > MaxEpochs THEN w
  ELSE DispatchLeave(IF <<"window", "pointerleave", e>> \in w.listeners
                     THEN handlePointerLeaveGlobal(w, e) ELSE w,
                     e + 1)

\* the event's target is the canvas: the point is inside its box, or the pointer is captured
OnCanvas(pt, p) ==
  \/ p \in captured
  \/ /\ live # 0
     /\ 0 <= pt[1] /\ pt[1] <= size[1]
     /\ 0 <= pt[2] /\ pt[2] <= size[2]

\* -------------------------------------------------------------- actions
NoWorld ==
  [ ep |-> [e \in EpochIds |-> DeadClosure], listeners |-> {}, rafQueue |-> {},
    timers |-> {}, captured |-> {}, simulationRef |-> 0, rect |-> <<0, 0>>,
    canvas |-> Null ]

\* the component after its first render: the epoch of the initial size
Init ==
  /\ size = <<INITIAL_WIDTH, INITIAL_HEIGHT>>
  /\ live = 1
  /\ down = {}
  /\ captureSupported \in BOOLEAN
  /\ hist = NoHist
  /\ probe = NoProbe
  /\ \E stream \in RandomStreams :
       LET w == setupEpoch(NoWorld, 1, INITIAL_WIDTH, INITIAL_HEIGHT, stream)
       IN /\ ep = w.ep
          /\ listeners = w.listeners
          /\ rafQueue = w.rafQueue
          /\ timers = w.timers
          /\ captured = w.captured
          /\ simulationRef = w.simulationRef

\* a pointermove event: to the canvas listener when the canvas is its target,
\* then (bubbling) to the window listener
PointerMove(pt, p) ==
  /\ listeners # {}
  /\ p \in {1} \cup down
  /\ LET ev == PointerEvent(pt, p)
         w1 == IF OnCanvas(pt, p) THEN DispatchMove(World, "canvas", ev, 1) ELSE World
         w2 == DispatchMove(w1, "window", ev, 1)
     IN Commit(Collect(w2, live))
  /\ hist' = IF live = 0 THEN hist
             ELSE [hist EXCEPT !.latest = Some(Stored(PointerEvent(pt, p))),
                               !.stale = FALSE, !.ended = FALSE]
  /\ UNCHANGED <<size, live, down, captureSupported, probe>>

\* a pointerdown event on the canvas; setPointerCapture throws where the host lacks it
PointerDown(pt, p) ==
  /\ live # 0
  /\ p \notin down
  /\ p \notin PrimaryPointers => (PrimaryPointers \cap TouchPointers) \subseteq down
  /\ OnCanvas(pt, p)
  /\ Commit(Collect(DispatchDown(World, PointerEvent(pt, p), captureSupported, 1), live))
  /\ down' = IF p \in PrimaryPointers THEN down \cup {p} ELSE down
  /\ hist' = [hist EXCEPT
                !.interfered = @ \/ (p \in PrimaryPointers /\ hist.latest # Null),
                !.stale = @ /\ p \notin PrimaryPointers,
                !.ended = FALSE]
  /\ UNCHANGED <<size, live, captureSupported, probe>>

\* a pointerup or pointercancel event; afterwards the browser drops the
\* pointer's capture by itself
PointerEnd(type, pt, p) ==
  /\ IF p \in PrimaryPointers THEN p \in down
     ELSE (PrimaryPointers \cap TouchPointers) \subseteq down
  /\ LET hit == OnCanvas(pt, p)
         w1  == IF hit THEN DispatchEnd(World, type, PointerEvent(pt, p), 1) ELSE World
         w2  == [w1 EXCEPT !.captured = @ \ {p}]
     IN /\ Commit(Collect(w2, live))
        /\ hist' = IF hit /\ live # 0 /\ p \in PrimaryPointers
                   THEN [hist EXCEPT !.interfered = @ \/ hist.latest # Null,
                                     !.stale = FALSE,
                                     !.ended = ep[live].isDragging]
                   ELSE [hist EXCEPT !.ended = FALSE]
  /\ down' = down \ {p}
  /\ UNCHANGED <<size, live, captureSupported, probe>>

PointerUp(pt, p) == PointerEnd("pointerup", pt, p)

PointerCancel(pt, p) == PointerEnd("pointercancel", pt, p)

\* a pointerleave event at the window
PointerLeave ==
  /\ listeners # {}
  /\ Commit(Collect(DispatchLeave(World, 1), live))
  /\ hist' = [hist EXCEPT
                !.stale = @ \/ (live # 0 /\ ~ep[live].isDragging /\ ep[live].lastEvent # Null),
                !.ended = FALSE]
  /\ UNCHANGED <<size, live, down, captureSupported, probe>>

\* the browser runs one pending frame callback
Frame(hq) ==
  /\ hq \in rafQueue
  /\ Commit(Collect(processPointer([World EXCEPT !.rafQueue = @ \ {hq}], hq[2]), live))
  /\ hist' = IF hq[2] = live THEN [NoHist EXCEPT !.ended = hist.ended] ELSE hist
  /\ UNCHANGED <<size, live, down, captureSupported, probe>>

\* the simulation timer of epoch e fires
Tick(e) ==
  /\ e \in timers
  /\ Commit(Collect(simulationStep(World, e), live))
  /\ UNCHANGED <<size, live, down, captureSupported, hist, probe>>

\* the container's size changes: the effect's cleanup, then the effect again
Resize(ns, stream) ==
  /\ live # 0
  /\ ns # size
  /\ LET w1   == Collect(cleanupEpoch(World, live), 0)
         free == {e \in EpochIds : w1.ep[e] = DeadClosure}
     IN /\ free # {}
        /\ LET e2 == CHOOSE e \in free : \A f \in free : e <= f
           IN /\ Commit(setupEpoch(w1, e2, ns[1], ns[2], stream))
              /\ live' = e2
  /\ size' = ns
  /\ hist' = NoHist
  /\ UNCHANGED <<down, captureSupported, probe>>

\* the component unmounts: the effect's cleanup
Unmount ==
  /\ live # 0
  /\ Commit(Collect(cleanupEpoch(World, live), 0))
  /\ live' = 0
  /\ hist' = NoHist
  /\ UNCHANGED <<size, down, captureSupported, probe>>

Next ==
  \/ \E pt \in ClientPoints, p \in Pointers : PointerMove(pt, p)
  \/ \E pt \in ClientPoints, p \in Pointers : PointerDown(pt, p)
  \/ \E pt \in ClientPoints, p \in Pointers : PointerUp(pt, p)
  \/ \E pt \in ClientPoints, p \in Pointers : PointerCancel(pt, p)
  \/ PointerLeave
  \/ \E hq \in rafQueue : Frame(hq)
  \/ \E e \in EpochIds : Tick(e)
  \/ \E ns \in Sizes, stream \in RandomStreams : Resize(ns, stream)
  \/ Unmount

Spec == Init /\ [][Next]_vars

\* -------------------------------------- the module-level functions, called
\* the strings, draws, nodes and node arrays the functions are called with
HexChars == {"#", "a", "g"}
HexStrings == UNION {[1 .. k -> HexChars] : k \in 0 .. MaxHexLen}
Draws == 0 .. MaxDraw
ProbePoints == (0 .. MaxCoord) \X (0 .. MaxCoord)
MousePoints == {<<0, 0>>, <<1, 2>>}
RenderPoints == {<<0, 0>>, <<60, 80>>, <<100, 0>>, <<101, 0>>, <<160, 80>>}
PointArrays == UNION {[1 .. k -> RenderPoints] : k \in 1 .. MaxRenderNodes}

At(pt) == [x |-> pt[1], y |-> pt[2]]

\* a node array as the renderer receives it: the mouse node is the last one
RenderNodes(pts) ==
  [i \in 1 .. Len(pts) |->
     [id |-> IF i = Len(pts) THEN MOUSE_ID ELSE i - 1, x |-> pts[i][1], y |-> pts[i][2]]]

Idle ==
  UNCHANGED <<size, live, simulationRef, ep, listeners, rafQueue, timers, captured, down,
              captureSupported, hist>>

CallHexToRgb(hex) ==
  /\ probe = NoProbe
  /\ probe' = [fn |-> "hexToRgb", hex |-> hex, out |-> hexToRgb(hex)]
  /\ Idle

CallPickWeightedColor(r) ==
  /\ probe = NoProbe
  /\ probe' = [fn |-> "pickWeightedColor", r |-> r, out |-> pickWeightedColor(r)]
  /\ Idle

CallProximity(pt, mpt, radius) ==
  /\ probe = NoProbe
  /\ probe' =
       [ fn |-> "proximityFactorToMouseWithRadius",
         n |-> At(pt), m |-> At(mpt), radius |-> radius,
         out |-> proximityFactorToMouseWithRadius(At(pt), At(mpt), radius, radius * radius,
                                                  MOUSE_FALLOFF),
         linear |-> proximityFactorToMouseWithRadius(At(pt), At(mpt), radius,
                                                     radius * radius, "linear"),
         quadratic |-> proximityFactorToMouseWithRadius(At(pt), At(mpt), radius,
                                                        radius * radius, "quadratic") ]
  /\ Idle

\* the node array of a frame: nodes with a radius and a colour, the mouse
\* node the last one
FramePoints == {<<0, 0>>, <<300, 0>>, <<380, 0>>, <<470, 0>>, <<695, 0>>, <<720, 0>>}
FrameArrays == UNION {[1 .. k -> FramePoints] : k \in 1 .. MaxRenderNodes}

FrameNodes(pts) ==
  [i \in 1 .. Len(pts) |->
     [ id |-> IF i = Len(pts) THEN MOUSE_ID ELSE i - 1, x |-> pts[i][1], y |-> pts[i][2],
       radius |-> NODE_RADIUS, color |-> <<"#", "a", "a", "a">> ]]

CallDrawFrame(pts) ==
  /\ probe = NoProbe
  /\ LET nodes == FrameNodes(pts)
     IN probe' = [ fn |-> "drawFrameWithSeparateRadii", nodes |-> nodes,
                   out |-> drawFrameWithSeparateRadii(nodes, nodes[Len(nodes)]) ]
  /\ Idle

CallEdges(pts) ==
  /\ probe = NoProbe
  /\ probe' = [fn |-> "edges", nodes |-> RenderNodes(pts), out |-> edges(RenderNodes(pts))]
  /\ Idle

Return ==
  /\ probe # NoProbe
  /\ probe' = NoProbe
  /\ Idle

\* no component is mounted while the functions are looked at
FunctionInit ==
  /\ size = <<INITIAL_WIDTH, INITIAL_HEIGHT>>
  /\ live = 0
  /\ down = {}
  /\ captureSupported = FALSE
  /\ hist = NoHist
  /\ probe = NoProbe
  /\ ep = NoWorld.ep
  /\ listeners = {}
  /\ rafQueue = {}
  /\ timers = {}
  /\ captured = {}
  /\ simulationRef = 0

FunctionNext ==
  \/ \E hex \in HexStrings : CallHexToRgb(hex)
  \/ \E r \in Draws : CallPickWeightedColor(r)
  \/ \E pt \in ProbePoints, mpt \in MousePoints, radius \in 1 .. MaxRadius :
       CallProximity(pt, mpt, radius)
  \/ \E pts \in PointArrays : CallEdges(pts)
  \/ \E pts \in FrameArrays : CallDrawFrame(pts)
  \/ Return

FunctionSpec == FunctionInit /\ [][FunctionNext]_vars

\* ------------------------------------------------------------ properties
\* the live epoch's closure, its mouse node and its viewport in units
Live == ep[live]
Mouse == mouseNode(Live)
W == Live.width * Scale
H == Live.height * Scale
Generated == 1 .. (Len(Live.nodes) - 1)
PinnedPointer(n) == n.id = MOUSE_ID /\ n.fx # Null /\ n.fy # Null
InitialSize == <<INITIAL_WIDTH, INITIAL_HEIGHT>>

\* C1 as stated: after each tick callback every node other than the pinned
\* pointer-node lies in [radius, width - radius] x [radius, height - radius],
\* for every viewport of width >= 1 and height >= 1
C1_InBoundsEveryViewport ==
  [][\A e \in EpochIds :
       Tick(e) =>
         \A i \in 1 .. Len(ep'[e].nodes) :
           LET n == ep'[e].nodes[i]
           IN ~PinnedPointer(n) =>
                /\ n.radius <= n.x /\ n.x <= ep[e].width * Scale - n.radius
                /\ n.radius <= n.y /\ n.y <= ep[e].height * Scale - n.radius]_vars

\* C1 amended: the bounds hold on every axis that is at least two radii long:
\* radius <= x <= width - radius when width >= 2 * radius, and
\* radius <= y <= height - radius when height >= 2 * radius
C1_InBoundsWhereTheViewportFits ==
  [][\A e \in EpochIds :
       Tick(e) =>
         \A i \in 1 .. Len(ep'[e].nodes) :
           LET n  == ep'[e].nodes[i]
               wu == ep[e].width * Scale
               hu == ep[e].height * Scale
           IN ~PinnedPointer(n) =>
                /\ wu >= 2 * n.radius => (n.radius <= n.x /\ n.x <= wu - n.radius)
                /\ hu >= 2 * n.radius => (n.radius <= n.y /\ n.y <= hu - n.radius)]_vars

\* a generated node that was sent back by the right wall of a viewport it fits in
C1_Witness ==
  /\ live # 0
  /\ \E i \in Generated :
       LET n == Live.nodes[i]
       IN /\ W > 2 * n.radius /\ H >= 2 * n.radius
          /\ n.x = W - n.radius /\ n.vx < 0
          /\ n.y = n.radius

\* the clamped canvas position processPointer computes for stored coordinates c
ClampX(c) == Max(0, Min(c.clientX, W))
ClampY(c) == Max(0, Min(c.clientY, H))

\* C2: a frame callback that processes an update while dragging puts the
\* pointer-node and its pin exactly at the clamped pointer position (DRAG_LERP
\* 0 = snap), whatever the node's position was
C2_DragSnapsToPointer ==
  [][\A hq \in rafQueue :
       (Frame(hq) /\ hq[2] = live /\ Live.isDragging /\ Live.lastEvent # Null) =>
         LET c == Val(Live.lastEvent)
             m == mouseNode(ep'[live])
         IN /\ m.x = ClampX(c) /\ m.y = ClampY(c)
            /\ m.fx = Some(ClampX(c)) /\ m.fy = Some(ClampY(c))]_vars

\* C3: a tick that finds the pointer-node pinned (fx and fy present) leaves it
\* with velocity (0,0), at its pin, and with the pin unchanged
C3_PinnedPointerStaysAtPin ==
  [][\A e \in EpochIds :
       (Tick(e) /\ PinnedPointer(mouseNode(ep[e]))) =>
         LET m == mouseNode(ep[e])
             n == mouseNode(ep'[e])
         IN /\ n.vx = 0 /\ n.vy = 0
            /\ n.x = Val(m.fx) /\ n.y = Val(m.fy)
            /\ n.fx = m.fx /\ n.fy = m.fy]_vars

\* the pointer-node pinned on the canvas edge, closer to the wall than its
\* radius, in an epoch that has ticked (the generated nodes are off the edge)
C3_Witness ==
  /\ live # 0
  /\ PinnedPointer(Mouse)
  /\ Mouse.x = Val(Mouse.fx) /\ Mouse.y = Val(Mouse.fy)
  /\ Mouse.y = 0 /\ Mouse.x = W
  /\ Mouse.radius > 0
  /\ \A i \in Generated : Live.nodes[i].x >= Live.nodes[i].radius

\* the pointer-node a processed update computes from stored coordinates c
Pointed(m, c, dragging) ==
  LET nx == IF dragging THEN lerp(m.x, ClampX(c), DRAG_LERP) ELSE ClampX(c)
      ny == IF dragging THEN lerp(m.y, ClampY(c), DRAG_LERP) ELSE ClampY(c)
  IN [m EXCEPT !.x = nx, !.y = ny, !.fx = Some(nx), !.fy = Some(ny)]

\* the frame callback hq is the only one pending, it processes the latest
\* pointer-move event, and nothing is left to process after it
ProcessesLatestOnce(hq) ==
  /\ {q \in rafQueue : q[2] = live} = {hq}
  /\ Live.lastEvent = hist.latest
  /\ mouseNode(ep'[live]) = Pointed(Mouse, Val(hist.latest), Live.isDragging)
  /\ ep'[live].lastEvent = Null
  /\ ep'[live].rafId = Null
  /\ {q \in rafQueue' : q[2] = live} = {}

AxisAfterTick(p, v, r, d) ==
  LET q == p + v
  IN IF q <= r THEN r ELSE IF q >= d - r THEN d - r ELSE q

\* C5: a pointerleave while not dragging clears fx and fy (and nothing else of
\* the pointer-node), one while dragging changes nothing; a tick that finds the
\* pointer-node unpinned moves it by its velocity and the walls, as it moves
\* every generated node
C5_LeaveUnpinsAndTickIntegrates ==
  [][/\ (live # 0 /\ PointerLeave) =>
          mouseNode(ep'[live]) =
            IF Live.isDragging THEN Mouse ELSE [Mouse EXCEPT !.fx = Null, !.fy = Null]
     /\ (live # 0 /\ Tick(live) /\ Mouse.fx = Null /\ Mouse.fy = Null) =>
          \A i \in 1 .. Len(Live.nodes) :
            LET n == Live.nodes[i]
                t == ep'[live].nodes[i]
            IN /\ t.x = AxisAfterTick(n.x, n.vx, n.radius, W)
               /\ t.y = AxisAfterTick(n.y, n.vy, n.radius, H)
               /\ t.fx = Null /\ t.fy = Null]_vars

\* the pointer-node, once pinned at the corner (W, 0) by a processed update, is
\* free again and a tick has brought it inside the walls
C5_Witness ==
  /\ live # 0
  /\ ~Live.isDragging
  /\ Live.alpha = 100
  /\ Mouse.fx = Null /\ Mouse.fy = Null
  /\ W > 2 * Mouse.radius
  /\ Mouse.x = W - Mouse.radius /\ Mouse.y = Mouse.radius

\* C6: only the mounted epoch has listeners, a running tick clock or a pending
\* frame callback; an epoch that was cleaned up has none of them, so nothing
\* of it can run again
C6_TeardownReleasesEverything ==
  /\ \A l \in listeners : l[3] # 0 /\ l[3] = live
  /\ \A hq \in rafQueue : hq[2] # 0 /\ hq[2] = live
  /\ timers \subseteq ({live} \ {0})
  /\ simulationRef = live
  /\ \A e \in EpochIds : e # live => ep[e] = DeadClosure

\* unmounted while a pointer was pressed: nothing of the epoch is left
C6_Witness ==
  /\ live = 0
  /\ down # {}
  /\ listeners = {} /\ rafQueue = {} /\ timers = {}

\* C7: whenever the component is not dragging, or is torn down, no pointer
\* capture taken by onPointerDown is still held
C7_NoCaptureOutlivesDrag ==
  (live = 0 \/ ~Live.isDragging) => captured = {}

\* C8: a step that changes the viewport size leaves exactly one epoch, built
\* from the new size alone: node array regenerated with the count for the new
\* width, pointer-node unpinned at the centre (to within one length unit)
\* with zero velocity, drag and
\* pending-frame bookkeeping cleared, one tick clock (the new one), nothing of
\* the old epoch left; and never are two tick clocks running
C8_ResizeReplacesEpoch ==
  /\ [](Cardinality(timers) <= 1)
  /\ [][size' # size =>
          /\ live' # 0
          /\ LET c     == ep'[live']
                 count == getNodeCountForWidth(size'[1])
                 m     == mouseNode(c)
             IN /\ c.width = size'[1] /\ c.height = size'[2]
                /\ Len(c.nodes) = count + 1
                /\ \E stream \in RandomStreams :
                     SubSeq(c.nodes, 1, count) =
                       generateNodes(count, size'[1], size'[2], stream)
                /\ m.id = MOUSE_ID
                /\ Abs(2 * m.x - size'[1] * Scale) <= 1
                /\ Abs(2 * m.y - size'[2] * Scale) <= 1
                /\ m.vx = 0 /\ m.vy = 0
                /\ m.fx = Null /\ m.fy = Null
                /\ c.rafId = Null /\ c.lastEvent = Null
                /\ ~c.isDragging /\ c.activePointerId = Null
                /\ c.alpha = 1000 /\ c.alphaTarget = 0
          /\ timers' = {live'} /\ simulationRef' = live'
          /\ rafQueue' = {}
          /\ \A l \in listeners' : l[3] = live'
          /\ \A e \in EpochIds : e # live' => ep'[e] = DeadClosure]_vars

\* a resized viewport whose previous epoch was being dragged: the pointer is
\* still down, and the new epoch starts idle
C8_Witness ==
  /\ live # 0
  /\ size # InitialSize
  /\ down # {}
  /\ ~Live.isDragging /\ Live.activePointerId = Null
  /\ Live.alpha = 1000 /\ Live.alphaTarget = 0
  /\ Mouse.fx = Null /\ 2 * Mouse.x = W

\* C9: the node array of an active epoch holds the generated nodes, with ids
\* 0 .. count-1 equal to their generation index, followed by the pointer-node,
\* the only node with id -1
C9_NodeIdentities ==
  live # 0 =>
    /\ Len(Live.nodes) = getNodeCountForWidth(Live.width) + 1
    /\ \A i \in Generated : Live.nodes[i].id = i - 1
    /\ Mouse.id = MOUSE_ID
    /\ Cardinality({i \in 1 .. Len(Live.nodes) : Live.nodes[i].id = MOUSE_ID}) = 1

\* two generated nodes and the pointer-node, after pointer updates and ticks
C9_Witness ==
  /\ live # 0
  /\ Len(Live.nodes) = 3
  /\ Live.alpha = 100
  /\ Live.isDragging
  /\ \E i \in Generated : Live.nodes[i].x = Live.nodes[i].radius

\* C10: a tick leaves |vx| and |vy| (hence vx*vx + vy*vy) of every node the
\* reflect step handles as they were
C10_BouncePreservesSpeed ==
  [][\A e \in EpochIds :
       Tick(e) =>
         \A i \in 1 .. Len(ep[e].nodes) :
           LET n == ep[e].nodes[i]
               t == ep'[e].nodes[i]
           IN ~PinnedPointer(n) =>
                /\ Abs(t.vx) = Abs(n.vx)
                /\ Abs(t.vy) = Abs(n.vy)
                /\ t.vx * t.vx + t.vy * t.vy = n.vx * n.vx + n.vy * n.vy]_vars

\* a generated node has just bounced off the left wall
C10_Witness ==
  /\ live # 0
  /\ \E i \in Generated :
       LET n == Live.nodes[i]
       IN /\ W > 2 * n.radius
          /\ n.x = n.radius /\ n.vx > 0 /\ n.vy # 0

\* C11: a primary pointerdown on the canvas, from any state, leaves the epoch
\* dragging with activePointerId the event's id, the down event stored and a
\* frame callback pending to process it, the excitation target at 0.1 and the
\* tick clock running
C11_PointerDownEntersDragging ==
  [][\A pt \in ClientPoints, p \in PrimaryPointers :
       PointerDown(pt, p) =>
         LET c == ep'[live]
         IN /\ c.isDragging
            /\ c.activePointerId = Some(p)
            /\ c.lastEvent = Some([clientX |-> pt[1] * Scale, clientY |-> pt[2] * Scale])
            /\ c.rafId # Null
            /\ {hq \in rafQueue' : hq[2] = live} = {<<Val(c.rafId), live>>}
            /\ c.alphaTarget = 100
            /\ live \in timers']_vars

\* dragging after a pointerdown that arrived while a pointermove was stored and
\* its frame pending: the stored event is now the pointerdown
C11_Witness ==
  /\ live # 0
  /\ Live.isDragging
  /\ hist.latest # Null /\ hist.interfered
  /\ Live.rafId # Null
  /\ Live.lastEvent # Null /\ Live.lastEvent # hist.latest
  /\ Live.alphaTarget = 100

\* C12: a primary pointerup or pointercancel handled by the canvas listener
\* ends the drag whatever its pointer id: isDragging false, activePointerId
\* null, excitation target 0
C12_PrimaryReleaseEndsDrag ==
  [][\A type \in {"pointerup", "pointercancel"}, pt \in ClientPoints, p \in PrimaryPointers :
       (live # 0 /\ OnCanvas(pt, p) /\ PointerEnd(type, pt, p)) =>
         LET c == ep'[live]
         IN /\ ~c.isDragging
            /\ c.activePointerId = Null
            /\ c.alphaTarget = 0]_vars

\* the drag was ended by the release of a pointer other than the active one,
\* which is still down and captured
C12_Witness ==
  /\ live # 0
  /\ ~Live.isDragging /\ Live.activePointerId = Null /\ Live.alphaTarget = 0
  /\ hist.ended
  /\ down # {} /\ captured # {}

C14_HoverFollowsClamped ==
  [][\A hq \in rafQueue :
       (Frame(hq) /\ hq[2] = live /\ Live.lastEvent # Null /\ ~Live.isDragging) =>
         LET c  == Val(Live.lastEvent)
             cx == IF c.clientX < 0 THEN 0 ELSE IF c.clientX > W THEN W ELSE c.clientX
             cy == IF c.clientY < 0 THEN 0 ELSE IF c.clientY > H THEN H ELSE c.clientY
             n  == mouseNode(ep'[live])
         IN /\ n.x = cx /\ n.y = cy
            /\ n.fx = Some(cx) /\ n.fy = Some(cy)]_vars

\* hovering: an update processed while no pointer is down has pinned the
\* pointer-node at the inside point, and ticks have run since
C14_Witness ==
  /\ live # 0
  /\ ~Live.isDragging /\ down = {}
  /\ Live.lastEvent = Null /\ Live.rafId = Null
  /\ Live.alpha = 100
  /\ PinnedPointer(Mouse)
  /\ Mouse.x = 1 * Scale /\ Mouse.y = 1 * Scale
  /\ \E i \in Generated : Live.nodes[i].x = W - Live.nodes[i].radius

\* C20: the pointer-node is pinned only by an event received after the last
\* pointerleave handled while not dragging: no step pins it while the stored
\* event is one received before that leave
C20_NoRepinBeforeNewEvent ==
  [][(live # 0 /\ live' = live /\ Mouse.fx = Null /\ mouseNode(ep'[live]).fx # Null) =>
       ~hist.stale]_vars

\* the set of unordered pairs of node ids an edge list connects
EdgePairs(es) == {{es[k].a.id, es[k].b.id} : k \in 1 .. Len(es)}

Reverse(seq) == [i \in 1 .. Len(seq) |-> seq[Len(seq) + 1 - i]]

\* C15: the edge list has no self-edge, holds each unordered pair at most
\* once, connects exactly the pairs of distinct nodes at most LINK_DISTANCE
\* apart (a pair exactly LINK_DISTANCE apart included), and connects the same
\* pairs when the array is given in the opposite order
C15_EdgeSet ==
  probe.fn = "edges" =>
    LET ns   == probe.nodes
        es   == probe.out
        Near == { {ns[q[1]].id, ns[q[2]].id} :
                    q \in { q \in (1 .. Len(ns)) \X (1 .. Len(ns)) :
                             /\ q[1] # q[2]
                             /\ (ns[q[1]].x - ns[q[2]].x) * (ns[q[1]].x - ns[q[2]].x)
                                  + (ns[q[1]].y - ns[q[2]].y) * (ns[q[1]].y - ns[q[2]].y)
                                <= LINK_DISTANCE * LINK_DISTANCE } }
    IN /\ \A k \in 1 .. Len(es) : es[k].a.id # es[k].b.id
       /\ \A k, l \in 1 .. Len(es) :
            k # l => {es[k].a.id, es[k].b.id} # {es[l].a.id, es[l].b.id}
       /\ EdgePairs(es) = Near
       /\ EdgePairs(edges(Reverse(ns))) = EdgePairs(es)

\* three nodes, two of them exactly LINK_DISTANCE apart and connected, two
\* of them farther apart and not connected
C15_Witness ==
  /\ probe.fn = "edges"
  /\ Len(probe.nodes) = 3
  /\ Len(probe.out) \in {1, 2}
  /\ \E k \in 1 .. Len(probe.out) : probe.out[k].dist = LINK_DISTANCE * 10

\* the squared distance of the probed node to the mouse node
ProbeD2 ==
  (probe.n.x - probe.m.x) * (probe.n.x - probe.m.x)
    + (probe.n.y - probe.m.y) * (probe.n.y - probe.m.y)

\* C16 as stated: at every distance d with 0 < d < radius the quadratic
\* falloff gives at most what the linear falloff gives
C16_QuadraticAtMostLinear ==
  (probe.fn = "proximityFactorToMouseWithRadius"
     /\ 0 < ProbeD2 /\ ProbeD2 < probe.radius * probe.radius)
    => probe.quadratic <= probe.linear

\* C16 amended: at every distance d with 0 < d < radius the quadratic falloff
\* gives at least what the linear falloff gives
C16_QuadraticAtLeastLinear ==
  (probe.fn = "proximityFactorToMouseWithRadius"
     /\ 0 < ProbeD2 /\ ProbeD2 < probe.radius * probe.radius)
    => probe.quadratic >= probe.linear

\* a node strictly inside the radius, away from the mouse node, for which the
\* two falloffs differ
C16_Witness ==
  /\ probe.fn = "proximityFactorToMouseWithRadius"
  /\ 0 < ProbeD2 /\ ProbeD2 < probe.radius * probe.radius
  /\ probe.linear > 0
  /\ probe.quadratic > probe.linear

\* C17: the proximity factor is 0 when the squared distance is at least
\* radius squared, exactly 1 at distance 0, always in [0, 1], and no node
\* farther from the mouse node has a larger one (for either falloff)
C17_ProximityShape ==
  probe.fn = "proximityFactorToMouseWithRadius" =>
    LET r  == probe.radius
        P(pt, f) == proximityFactorToMouseWithRadius(At(pt), probe.m, r, r * r, f)
        D2(pt) == (pt[1] - probe.m.x) * (pt[1] - probe.m.x)
                    + (pt[2] - probe.m.y) * (pt[2] - probe.m.y)
    IN /\ probe.out = probe.linear
       /\ \A v \in {probe.linear, probe.quadratic} :
            /\ ProbeD2 >= r * r => v = 0
            /\ ProbeD2 = 0 => v = 1000
            /\ 0 <= v /\ v <= 1000
       /\ \A pt \in ProbePoints :
            D2(pt) >= ProbeD2 =>
              /\ P(pt, "linear") <= probe.linear
              /\ P(pt, "quadratic") <= probe.quadratic

\* a node inside the radius with a factor strictly between 0 and 1, and a
\* node outside the radius
C17_Witness ==
  /\ probe.fn = "proximityFactorToMouseWithRadius"
  /\ 0 < probe.out /\ probe.out < 1000
  /\ \E pt \in ProbePoints :
       (pt[1] - probe.m.x) * (pt[1] - probe.m.x) + (pt[2] - probe.m.y) * (pt[2] - probe.m.y)
         >= probe.radius * probe.radius

\* the cumulative weight of the first i bands
RECURSIVE CumWeight(_)
CumWeight(i) == IF i = 0 THEN 0 ELSE CumWeight(i - 1) + COLOR_WEIGHTS[i].weight

\* the bands whose cumulative weight covers the draw r
Covering(r) == {i \in 1 .. Len(COLOR_WEIGHTS) : r <= CumWeight(i)}

FirstCovering(r) == CHOOSE i \in Covering(r) : \A j \in Covering(r) : i <= j

\* C18 as stated: the colour of the first covering band is returned, and a
\* draw >= the sum of the weights returns the first table entry
C18_DrawAtSumFallsBack ==
  probe.fn = "pickWeightedColor" =>
    /\ Covering(probe.r) # {} => probe.out = COLOR_WEIGHTS[FirstCovering(probe.r)].color
    /\ probe.r >= CumWeight(Len(COLOR_WEIGHTS)) => probe.out = COLOR_WEIGHTS[1].color

\* C18 amended: the colour of the first covering band is returned (the last
\* band for a draw equal to the sum of the weights), and a draw > the sum of
\* the weights returns the first table entry
C18_DrawAboveSumFallsBack ==
  probe.fn = "pickWeightedColor" =>
    /\ Covering(probe.r) # {} => probe.out = COLOR_WEIGHTS[FirstCovering(probe.r)].color
    /\ probe.r > CumWeight(Len(COLOR_WEIGHTS)) => probe.out = COLOR_WEIGHTS[1].color

\* a draw above the sum of the weights has returned the first table entry
C18_Witness ==
  /\ probe.fn = "pickWeightedColor"
  /\ probe.r > CumWeight(Len(COLOR_WEIGHTS))
  /\ Covering(probe.r) = {}
  /\ probe.out = COLOR_WEIGHTS[1].color

\* "#" followed by three or six hexadecimal digits (the "#" may be missing)
WellFormedColour(hex) ==
  LET h == IF hex # <<>> /\ hex[1] = "#" THEN Tail(hex) ELSE hex
  IN Len(h) \in {3, 6} /\ \A i \in 1 .. Len(h) : IsHexDigit(h[i])

\* C19: hexToRgb returns (200,200,200) for the empty string and for every
\* malformed one, and every component it returns is a number in 0..255
C19_MalformedGivesGray ==
  probe.fn = "hexToRgb" =>
    /\ \A c \in {probe.out.r, probe.out.g, probe.out.b} : ~c.nan /\ c.v \in 0 .. 255
    /\ ~WellFormedColour(probe.hex) =>
         probe.out = [r |-> Num(200), g |-> Num(200), b |-> Num(200)]

\* the frame callbacks of the live epoch that the browser still holds
PendingFrames == {hq \in rafQueue : hq[2] = live}

\* C21: in every state of the live epoch at most one pointer frame callback is
\* pending, rafId is non-null exactly when one is pending and then it is that
\* callback's handle, whatever events arrived since the last frame
C21_AtMostOnePendingFrame ==
  live # 0 =>
    /\ Cardinality(PendingFrames) <= 1
    /\ Live.rafId # Null <=> PendingFrames # {}
    /\ Live.rafId # Null => PendingFrames = {<<Val(Live.rafId), live>>}

\* one frame pending during a drag with the pointer captured, a pointermove
\* (delivered to both listeners) recorded since the last frame
C21_Witness ==
  /\ live # 0
  /\ Cardinality(PendingFrames) = 1
  /\ Live.isDragging
  /\ hist.latest # Null /\ Live.lastEvent = hist.latest
  /\ captured # {}

\* C23: the pointer handlers (pointermove, the frame callback, pointerdown,
\* pointerup, pointercancel, pointerleave) leave every generated node of every
\* epoch as it was (x, y, vx, vy, fx, fy, radius and colour): a step that
\* changes one is a tick, and the node arrays are replaced only by a resize
C23_HandlersLeaveGeneratedNodes ==
  [][(/\ size' = size /\ live' = live
      /\ \E e \in EpochIds :
           /\ ep[e] # DeadClosure /\ ep'[e] # DeadClosure
           /\ \/ Len(ep'[e].nodes) # Len(ep[e].nodes)
              \/ \E i \in 1 .. (Len(ep[e].nodes) - 1) : ep'[e].nodes[i] # ep[e].nodes[i]) =>
       \E e \in EpochIds : Tick(e)]_vars

\* a processed hover update moved and pinned the pointer-node while a
\* generated node was on its way off the left wall
C23_Witness ==
  /\ live # 0
  /\ ~Live.isDragging /\ PinnedPointer(Mouse) /\ Live.alpha = 100
  /\ Mouse.y = 0
  /\ \E i \in Generated : Live.nodes[i].vx > 0 /\ Live.nodes[i].x > Live.nodes[i].radius

\* C24: pointerdown, pointerup and pointercancel of a non-primary pointer
\* change nothing of any epoch: isDragging, activePointerId, lastEvent, rafId,
\* the pointer-node and the excitation values stay, and so do the pending
\* frames, the tick clock and the captures
C24_NonPrimaryIgnored ==
  [][\A pt \in ClientPoints, p \in Pointers \ PrimaryPointers :
       (PointerDown(pt, p) \/ PointerUp(pt, p) \/ PointerCancel(pt, p)) =>
         /\ ep' = ep
         /\ rafQueue' = rafQueue
         /\ timers' = timers
         /\ captured' = captured
         /\ down' = down]_vars

\* a touch drag with a recorded event and its frame pending: a second finger
\* can come down on the canvas and lift again
C24_Witness ==
  /\ live # 0
  /\ Live.isDragging
  /\ \E p \in PrimaryPointers \cap TouchPointers :
       p \in down /\ Live.activePointerId = Some(p)
  /\ Live.lastEvent # Null /\ Live.rafId # Null
  /\ \E pt \in ClientPoints : OnCanvas(pt, 3)

\* C25: a throwing setPointerCapture or releasePointerCapture does not abort
\* the handler: where capture is unsupported a primary pointerdown still ends
\* dragging with a frame pending and the target at 0.1; a primary pointerup or
\* pointercancel whose pointer is not captured still clears the drag and sets
\* the target 0; teardown (unmount or resize) of an epoch whose active pointer
\* is not captured still cancels its pending frame
C25_CaptureFailureTolerated ==
  /\ [][\A pt \in ClientPoints, p \in PrimaryPointers :
          (~captureSupported /\ PointerDown(pt, p)) =>
            /\ ep'[live].isDragging
            /\ ep'[live].rafId # Null
            /\ <<Val(ep'[live].rafId), live>> \in rafQueue'
            /\ ep'[live].alphaTarget = 100
            /\ captured' = captured]_vars
  /\ [][\A pt \in ClientPoints, p \in PrimaryPointers :
          (live # 0 /\ OnCanvas(pt, p) /\ p \notin captured
             /\ (PointerUp(pt, p) \/ PointerCancel(pt, p))) =>
            /\ ~ep'[live].isDragging
            /\ ep'[live].activePointerId = Null
            /\ ep'[live].alphaTarget = 0]_vars
  /\ [][(/\ live # 0
         /\ ep[live].activePointerId # Null
         /\ Val(ep[live].activePointerId) \notin captured
         /\ ep[live].rafId # Null
         /\ (live' = 0 \/ size' # size)) =>
          rafQueue' = {}]_vars

\* a drag started where setPointerCapture throws: dragging, frame pending,
\* target raised, nothing captured
C25_Witness ==
  /\ live # 0
  /\ ~captureSupported
  /\ Live.isDragging /\ Live.activePointerId # Null
  /\ Live.rafId # Null /\ Live.alphaTarget = 100
  /\ captured = {}

\* the velocity of the pointer-node is (0,0), and a step of the live epoch
\* that moves the pointer-node is a frame callback or a tick
PointerNodeAtRest ==
  /\ [](live # 0 => (Mouse.vx = 0 /\ Mouse.vy = 0))
  /\ [][(/\ live # 0 /\ live' = live /\ size' = size
         /\ \/ mouseNode(ep'[live]).x # Mouse.x
            \/ mouseNode(ep'[live]).y # Mouse.y) =>
          (Tick(live) \/ \E hq \in rafQueue : Frame(hq))]_vars

\* C27 as stated: the pointer-node's velocity is always (0,0), and a tick that
\* finds it unpinned leaves it where it is apart from clamping it into
\* [radius, width - radius] x [radius, height - radius]
C27_RestsInsideTheWalls ==
  /\ PointerNodeAtRest
  /\ [][(live # 0 /\ Tick(live) /\ ~PinnedPointer(Mouse)) =>
          LET n == mouseNode(ep'[live])
          IN /\ n.radius <= n.x /\ n.x <= W - n.radius
             /\ n.radius <= n.y /\ n.y <= H - n.radius
             /\ (Mouse.radius <= Mouse.x /\ Mouse.x <= W - Mouse.radius) => n.x = Mouse.x
             /\ (Mouse.radius <= Mouse.y /\ Mouse.y <= H - Mouse.radius) => n.y = Mouse.y]_vars

\* C27 amended: the pointer-node's velocity is always (0,0); a tick that finds
\* it unpinned leaves a coordinate strictly between radius and dimension -
\* radius as it is and otherwise puts it on the wall the code tests first
\* (radius, else dimension - radius), where a further tick leaves it; the
\* result is inside [radius, dimension - radius] when the dimension is at
\* least two radii
C27_RestsWhereTheTickPutsIt ==
  /\ PointerNodeAtRest
  /\ [][(live # 0 /\ Tick(live) /\ ~PinnedPointer(Mouse)) =>
          LET n == mouseNode(ep'[live])
              r == Mouse.radius
          IN /\ n.x = AxisAfterTick(Mouse.x, 0, r, W)
             /\ n.y = AxisAfterTick(Mouse.y, 0, r, H)
             /\ AxisAfterTick(n.x, 0, r, W) = n.x
             /\ AxisAfterTick(n.y, 0, r, H) = n.y
             /\ W >= 2 * r => (r <= n.x /\ n.x <= W - r)
             /\ H >= 2 * r => (r <= n.y /\ n.y <= H - r)
             /\ n.vx = 0 /\ n.vy = 0 /\ n.fx = Null /\ n.fy = Null]_vars

\* the pointer-node, unpinned by a pointerleave on the right edge of the
\* canvas, was put back on the right wall by a tick and rests there
C27_Witness ==
  /\ live # 0
  /\ ~PinnedPointer(Mouse)
  /\ Live.alpha = 100
  /\ W > 2 * Mouse.radius
  /\ Mouse.x = W - Mouse.radius /\ Mouse.x # W \div 2
  /\ Mouse.vx = 0 /\ Mouse.vy = 0

C29_ReleaseDiscardsPendingEvent ==
  /\ [][\A pt \in ClientPoints, p \in PrimaryPointers :
          (live # 0 /\ p \in down /\ OnCanvas(pt, p)
             /\ (PointerUp(pt, p) \/ PointerCancel(pt, p))) =>
            /\ ep'[live].lastEvent = Null
            /\ ep'[live].rafId = Live.rafId
            /\ {hq \in rafQueue' : hq[2] = live} = PendingFrames]_vars
  /\ [][\A hq \in rafQueue :
          (hq[2] = live /\ Live.lastEvent = Null /\ Frame(hq)) =>
            /\ ep'[live].rafId = Null
            /\ {h2 \in rafQueue' : h2[2] = live} = {}
            /\ mouseNode(ep'[live]) = Mouse
            /\ ep'[live].alpha = Live.alpha]_vars

\* a drag was started and ended before any frame, and the frame has run: no
\* update was ever processed (alpha still 1, pointer-node unpinned at the
\* centre), nothing is pending
C29_Witness ==
  /\ live # 0
  /\ hist.ended
  /\ Live.rafId = Null /\ Live.lastEvent = Null
  /\ Live.alpha = 1000
  /\ ~PinnedPointer(Mouse)
  /\ Mouse.x = W \div 2 /\ Mouse.y = H \div 2

\* C30: the pointer-node's fx and fy are both absent or both present; when
\* present, x = fx and y = fy; position and pin lie in [0,width] x [0,height];
\* no generated node has a pin
C30_PinConsistent ==
  live # 0 =>
    /\ Mouse.fx = Null <=> Mouse.fy = Null
    /\ Mouse.fx # Null => (Mouse.x = Val(Mouse.fx) /\ Mouse.y = Val(Mouse.fy))
    /\ 0 <= Mouse.x /\ Mouse.x <= W
    /\ 0 <= Mouse.y /\ Mouse.y <= H
    /\ \A i \in Generated : Live.nodes[i].fx = Null /\ Live.nodes[i].fy = Null

\* the pointer-node pinned on the canvas corner during a drag, its position
\* on the pin, the update processed and no tick needed for that
C30_Witness ==
  /\ live # 0
  /\ Live.isDragging /\ PinnedPointer(Mouse)
  /\ Mouse.x = W /\ Mouse.y = 0
  /\ Mouse.x = Val(Mouse.fx) /\ Mouse.y = Val(Mouse.fy)
  /\ Live.rafId = Null

\* C22: a tick is one step in which the integrator pass runs over all nodes of
\* the state the tick starts from (every pointer update applied so far), the
\* tick listener's loop follows, and the frame is drawn from the nodes that
\* loop leaves, which are the nodes of the state the tick ends in; at most one
\* tick clock is armed, so two ticks never overlap
C22_TickIntegratesThenRenders ==
  /\ [][\A e \in EpochIds :
          Tick(e) =>
            LET c      == ep[e]
                after  == [i \in 1 .. Len(c.nodes) |->
                             tickedNode(d3Integrate(c.nodes[i]),
                                        c.width * Scale, c.height * Scale)]
            IN /\ ep'[e].nodes = after
               /\ simulationStep(World, e).canvas
                    = Some(drawCall(ep'[e].nodes, c.width, c.height))]_vars
  /\ [](Cardinality(timers) <= 1)

\* a tick ran after a processed hover update and a pointerleave (it put the
\* unpinned pointer-node back on the right wall), and a later pointer event is
\* recorded but not yet processed
C22_Witness ==
  /\ live # 0
  /\ ~PinnedPointer(Mouse)
  /\ W > 2 * Mouse.radius
  /\ Mouse.x = W - Mouse.radius /\ Mouse.x # W \div 2
  /\ Live.lastEvent # Null /\ Live.rafId # Null

\* the proximity factor of node n in the drawn frame for an effect radius
FrameProximity(n, radius) ==
  proximityFactorToMouseWithRadius(n, probe.nodes[Len(probe.nodes)], radius,
                                   radius * radius, MOUSE_FALLOFF)

\* C26: in a drawn frame every node's proximity factor for the edge radius
\* (375) is at most its factor for the node radius (700), and both endpoints
\* of every edge that is stroked are among the nodes that are filled
C26_EdgesFadeBeforeNodes ==
  probe.fn = "drawFrameWithSeparateRadii" =>
    /\ \A i \in 1 .. Len(probe.nodes) :
         FrameProximity(probe.nodes[i], MOUSE_EFFECT_RADIUS_EDGES)
           <= FrameProximity(probe.nodes[i], MOUSE_EFFECT_RADIUS_NODES)
    /\ \A k \in 1 .. Len(probe.out.edges) :
         \A end \in {probe.out.edges[k].a, probe.out.edges[k].b} :
           \E j \in 1 .. Len(probe.out.nodes) : probe.out.nodes[j].n = end

\* a frame with a stroked edge one end of which is outside the edge radius
\* (edge proximity 0) and filled all the same
C26_Witness ==
  /\ probe.fn = "drawFrameWithSeparateRadii"
  /\ \E k \in 1 .. Len(probe.out.edges) :
       LET e == probe.out.edges[k]
       IN /\ FrameProximity(e.b, MOUSE_EFFECT_RADIUS_EDGES) = 0
          /\ FrameProximity(e.a, MOUSE_EFFECT_RADIUS_EDGES) > 0
          /\ \E j \in 1 .. Len(probe.out.nodes) :
               probe.out.nodes[j].n = e.b /\ probe.out.nodes[j].alpha > 0
  /\ Len(probe.out.nodes) = Len(probe.nodes)

====
